---- MODULE Spec2Model ----
(***************************************************************************)
(* chidb: the Pager (src/src/pager.rs) and the B-Tree file layer           *)
(* (src/src/lib.rs), modelled at the level of file bytes.                  *)
(*                                                                         *)
(* A byte buffer (the file, a MemPage's data, a serialized header) is a    *)
(* record [len, nz]: its length and the map from the offsets (0-based) of  *)
(* its non-zero bytes to those bytes.  Every offset below len that is not  *)
(* in DOMAIN nz holds the byte 0.  The representation is canonical, so     *)
(* equality of records is equality of byte strings.                        *)
(***************************************************************************)
EXTENDS Integers, Sequences, FiniteSets, TLC

\* ------------------------------------------------------------ bounds
\* Pages one Pager may allocate before the model stops allocating.
MaxPages == 2
\* Calls the program makes in one run.
MaxOps == 5

\* --------------------------------------------------------- constants
PAGE_SIZE == 4096 * 4
HEADER_SIZE == 100
MAGIC_BYTES_SIZE == 15
\* b"SQLite format 3"
MAGIC_BYTES == <<83, 81, 76, 105, 116, 101, 32, 102, 111, 114, 109, 97, 116, 32, 51>>
PAGE_CACHE_SIZE_INITIAL == 20000
\* 2^32 / PAGE_SIZE: the page offset is a u32 product, which wraps (release
\* build) after this many pages
PagesPerU32 == 262144

\* -------------------------------------------------------------- state
VARIABLES
    exists,       \* the path names a file
    file,         \* the file's bytes
    handle,       \* what the program holds on the file: "none", "btree", "pager"
    total_pages,  \* Pager.total_pages of the open handle
    nodes,        \* the BTreeNode values the caller holds, by slot
    pages,        \* the MemPage values the caller holds, by slot
    codec,        \* a BTreeHeader value, its to_bytes and the from_bytes of that
    last,         \* the last call: [op, n, slot, res]
    initialized,  \* history: BTree.open has initialized this file
    used,         \* history: page numbers a node was created on in this file
    nalloc,       \* history: allocate_page calls on the open Pager
    nops          \* history: calls made in this run

vars == <<exists, file, handle, total_pages, nodes, pages, codec, last, initialized, used,
          nalloc, nops>>

\* ------------------------------------------------------ byte buffers
Max(a, b) == IF a >= b THEN a ELSE b
Min(a, b) == IF a <= b THEN a ELSE b

Zeros(n) == [len |-> n, nz |-> [i \in {} |-> 0]]

ByteAt(b, i) == IF i \in DOMAIN b.nz THEN b.nz[i] ELSE 0

\* b[from..to), re-based at 0
Slice(b, from, to) ==
    [len |-> to - from,
     nz  |-> [i \in {k - from : k \in {j \in DOMAIN b.nz : j >= from /\ j < to}}
                |-> b.nz[i + from]]]

Concat(a, b) ==
    [len |-> a.len + b.len,
     nz  |-> [i \in DOMAIN a.nz \cup {j + a.len : j \in DOMAIN b.nz}
                |-> IF i < a.len THEN a.nz[i] ELSE b.nz[i - a.len]]]

\* a dense sequence of bytes as a buffer
FromSeq(s) ==
    [len |-> Len(s),
     nz  |-> [i \in {k - 1 : k \in {j \in 1..Len(s) : s[j] # 0}} |-> s[i + 1]]]

\* the n bytes of b from offset from, as a dense sequence
BytesOf(b, from, n) == [i \in 1..n |-> ByteAt(b, from + i - 1)]

\* buffer b with byte i set to v
SetByte(b, i, v) ==
    [len |-> b.len,
     nz  |-> [j \in IF v = 0 THEN DOMAIN b.nz \ {i} ELSE DOMAIN b.nz \cup {i}
                |-> IF j = i THEN v ELSE b.nz[j]]]

\* File::seek(Start(seek)) + File::write(b): the bytes land at seek.., the
\* file grows when they pass its end (a gap reads as zeros).
FileWrite(f, seek, b) ==
    [len |-> Max(f.len, seek + b.len),
     nz  |-> [i \in {k \in DOMAIN f.nz : k < seek \/ k >= seek + b.len}
                    \cup {j + seek : j \in DOMAIN b.nz}
                |-> IF i >= seek /\ i < seek + b.len THEN b.nz[i - seek] ELSE f.nz[i]]]

\* File::seek(Start(seek)) + File::read into a zeroed array of n bytes: the
\* bytes the file has from seek on, the rest of the array stays 0.
FileRead(f, seek, n) ==
    [len |-> n, nz |-> Slice(f, seek, Min(seek + n, Max(f.len, seek))).nz]

\* ------------------------------------------------- integer encodings
U16ToLe(v) == <<v % 256, (v \div 256) % 256>>
U16FromLe(s) == s[1] + 256 * s[2]
U32ToLe(v) == <<v % 256, (v \div 256) % 256, (v \div 65536) % 256, (v \div 16777216) % 256>>
U32FromLe(s) == s[1] + 256 * s[2] + 65536 * s[3] + 16777216 * s[4]

\* ------------------------------------------------------------ MemPage
MemPage_new(n_page, raw, offset) == [n_page |-> n_page, offset |-> offset, data |-> raw]

\* the page's bytes from offset on
data(page) == Slice(page.data, page.offset, page.data.len)

\* a set_data that forgets the bytes before offset
set_data_from_zero(page, raw) == [page EXCEPT !.data = raw]

\* the bytes before offset are kept, everything after them is replaced by raw
set_data(page, raw) ==
    [page EXCEPT !.data = Concat(Slice(page.data, 0, page.offset), raw)]

\* -------------------------------------------------------------- Pager
\* a Pager::open that truncates the file
Pager_open_truncate(f) == [file |-> Zeros(0), total_pages |-> 0]

\* A pager is [file, total_pages]: the file it owns and its page counter.
Pager_open(f) == [file |-> f, total_pages |-> 0]

is_empty(p) == p.file.len = 0

Pager_read_header(p) == FileRead(p.file, 0, HEADER_SIZE)

write_header(p, header) == [p EXCEPT !.file = FileWrite(p.file, 0, header)]

\* an allocate_page that returns the counter before incrementing it
allocate_page_stale(p) ==
    [pager |-> [p EXCEPT !.total_pages = p.total_pages + 1],
     ret   |-> p.total_pages]

allocate_page(p) ==
    [pager |-> [p EXCEPT !.total_pages = p.total_pages + 1],
     ret   |-> p.total_pages + 1]

\* (n_page - 1) * PAGE_SIZE as u32: the product modulo 2^32, which is
\* ((n_page - 1) mod 2^32/PAGE_SIZE) * PAGE_SIZE as PAGE_SIZE divides 2^32
PageSeek(n_page) == ((n_page - 1) % PagesPerU32) * PAGE_SIZE

\* the offset a page read from the file gets
PageOffset(n_page) == IF n_page = 1 THEN HEADER_SIZE + 1 ELSE 0

NoPage == [n_page |-> 0, offset |-> 0, data |-> Zeros(0)]

read_page(p, n_page) ==
    IF n_page > p.total_pages \/ n_page <= 0
    THEN [res |-> "EPageNo", page |-> NoPage]
    ELSE [res  |-> "Ok",
          page |-> MemPage_new(n_page, FileRead(p.file, PageSeek(n_page), PAGE_SIZE),
                               PageOffset(n_page))]

\* a write_page that checks only the lower bound
write_page_unbounded(p, page) ==
    IF page.n_page <= 0
    THEN [res |-> "EPageNo", pager |-> p]
    ELSE [res   |-> "Ok",
          pager |-> [p EXCEPT !.file = FileWrite(p.file, PageSeek(page.n_page), page.data)]]

\* a write_page that seeks to n_page * PAGE_SIZE, one page too far
write_page_next_page(p, page) ==
    IF page.n_page > p.total_pages \/ page.n_page <= 0
    THEN [res |-> "EPageNo", pager |-> p]
    ELSE [res   |-> "Ok",
          pager |-> [p EXCEPT !.file = FileWrite(p.file, page.n_page * PAGE_SIZE, page.data)]]

write_page(p, page) ==
    IF page.n_page > p.total_pages \/ page.n_page <= 0
    THEN [res |-> "EPageNo", pager |-> p]
    ELSE [res   |-> "Ok",
          pager |-> [p EXCEPT !.file = FileWrite(p.file, PageSeek(page.n_page), page.data)]]

\* ------------------------------------------------------ BTreeNodeType
NodeTypes == {"InternalTable", "LeafTable", "InternalIndex", "LeafIndex"}

value(typ) ==
    CASE typ = "InternalTable" -> 5
      [] typ = "LeafTable"     -> 13
      [] typ = "InternalIndex" -> 2
      [] typ = "LeafIndex"     -> 10

\* From<[u8; 1]>: any other byte panics
BTreeNodeType_from(b) ==
    CASE b = 5  -> "InternalTable"
      [] b = 13 -> "LeafTable"
      [] b = 2  -> "InternalIndex"
      [] b = 10 -> "LeafIndex"
      [] OTHER  -> "panic"

\* ---------------------------------------------------------- BTreeNode
BTreeNode_new(page, typ) ==
    [page |-> page, typ |-> typ, free_offset |-> 0, n_cells |-> 0,
     cells_offset |-> PAGE_SIZE % 65536, right_page |-> 0, celloffset_array |-> 0]

NoNode == BTreeNode_new(NoPage, "none")

\* the scalar fields write_node serializes: type, free_offset, n_cells,
\* cells_offset, right_page
NodeFields(node) ==
    <<value(node.typ)>> \o U16ToLe(node.free_offset) \o U16ToLe(node.n_cells)
        \o U16ToLe(node.cells_offset) \o U16ToLe(node.right_page)

\* a create that leaves the page's bytes as they were read
create_no_copy(page, typ) == [res |-> "Ok", node |-> BTreeNode_new(page, typ)]

\* create: the fields, then celloffset_array as one byte, then zeros up to
\* the length of the page's data; copied over the page's data from offset.
create(page, typ) ==
    LET node     == BTreeNode_new(page, typ)
        page_len == page.data.len - page.offset
        head     == NodeFields(node) \o <<node.celloffset_array % 256>>
    IN  IF page_len < Len(head)
        THEN [res |-> "panic", node |-> NoNode]
        ELSE [res  |-> "Ok",
              node |-> [node EXCEPT !.page.data =
                           Concat(Slice(page.data, 0, page.offset),
                                  Concat(FromSeq(head), Zeros(page_len - Len(head))))]]

load_from_page(page) ==
    LET d   == data(page)
        typ == BTreeNodeType_from(ByteAt(d, 0))
    IN  IF typ = "panic"
        THEN [res |-> "panic", node |-> NoNode]
        ELSE [res  |-> "Ok",
              node |-> [page |-> page, typ |-> typ,
                        free_offset      |-> U16FromLe(BytesOf(d, 1, 2)),
                        n_cells          |-> U16FromLe(BytesOf(d, 3, 2)),
                        cells_offset     |-> U16FromLe(BytesOf(d, 5, 2)),
                        right_page       |-> U16FromLe(BytesOf(d, 7, 2)),
                        celloffset_array |-> ByteAt(d, 9)]]

\* -------------------------------------------------------- BTreeHeader
\* a to_bytes that writes schema_version before file_change_counter
to_bytes_swapped(h) ==
    LET fields == h.magic_bytes \o U16ToLe(h.page_size) \o U32ToLe(h.schema_version)
                    \o U32ToLe(h.file_change_counter) \o U32ToLe(h.page_cache_size)
                    \o U32ToLe(h.user_cookie)
    IN  Concat(FromSeq(fields), Zeros(HEADER_SIZE - Len(fields)))

\* a from_bytes that reads page_size as a big-endian u16
from_bytes_be(bytes) ==
    [magic_bytes         |-> BytesOf(bytes, 0, MAGIC_BYTES_SIZE),
     page_size           |-> ByteAt(bytes, 16) + 256 * ByteAt(bytes, 15),
     file_change_counter |-> U32FromLe(BytesOf(bytes, 17, 4)),
     schema_version      |-> U32FromLe(BytesOf(bytes, 21, 4)),
     page_cache_size     |-> U32FromLe(BytesOf(bytes, 25, 4)),
     user_cookie         |-> U32FromLe(BytesOf(bytes, 29, 4))]

BTreeHeader_default ==
    [magic_bytes |-> MAGIC_BYTES, page_size |-> PAGE_SIZE % 65536,
     file_change_counter |-> 0, schema_version |-> 0,
     page_cache_size |-> PAGE_CACHE_SIZE_INITIAL, user_cookie |-> 0]

to_bytes(h) ==
    LET fields == h.magic_bytes \o U16ToLe(h.page_size) \o U32ToLe(h.file_change_counter)
                    \o U32ToLe(h.schema_version) \o U32ToLe(h.page_cache_size)
                    \o U32ToLe(h.user_cookie)
    IN  Concat(FromSeq(fields), Zeros(HEADER_SIZE - Len(fields)))

from_bytes(bytes) ==
    [magic_bytes         |-> BytesOf(bytes, 0, MAGIC_BYTES_SIZE),
     page_size           |-> U16FromLe(BytesOf(bytes, 15, 2)),
     file_change_counter |-> U32FromLe(BytesOf(bytes, 17, 4)),
     schema_version      |-> U32FromLe(BytesOf(bytes, 21, 4)),
     page_cache_size     |-> U32FromLe(BytesOf(bytes, 25, 4)),
     user_cookie         |-> U32FromLe(BytesOf(bytes, 29, 4))]

\* -------------------------------------------------------------- BTree
BTree_read_header(p) == from_bytes(Pager_read_header(p))

\* a validate_header that compares the first magic byte only
validate_header_first_byte(p) ==
    IF MAGIC_BYTES[1] # BTree_read_header(p).magic_bytes[1] THEN "Ecorruptheader" ELSE "Ok"

validate_header(p) ==
    IF MAGIC_BYTES # BTree_read_header(p).magic_bytes THEN "Ecorruptheader" ELSE "Ok"

initialize_header(p) == write_header(p, to_bytes(BTreeHeader_default))

\* an initialize_empty_table_leaf that makes the leaf and does not write it
initialize_empty_table_leaf_unwritten(p) ==
    LET a == allocate_page(p)
        r == read_page(a.pager, a.ret)
        c == create(r.page, "LeafTable")
    IN  IF r.res # "Ok" THEN [res |-> r.res, pager |-> a.pager]
        ELSE [res |-> c.res, pager |-> a.pager]

initialize_empty_table_leaf(p) ==
    LET a == allocate_page(p)
        r == read_page(a.pager, a.ret)
        c == create(r.page, "LeafTable")
        w == write_page(a.pager, c.node.page)
    IN  IF r.res # "Ok" THEN [res |-> r.res, pager |-> a.pager]
        ELSE IF c.res # "Ok" THEN [res |-> c.res, pager |-> a.pager]
        ELSE [res |-> w.res, pager |-> w.pager]

new_node(p, typ) ==
    LET a == allocate_page(p)
        r == read_page(a.pager, a.ret)
        c == create(r.page, typ)
        w == write_page(a.pager, c.node.page)
    IN  IF r.res # "Ok" THEN [res |-> r.res, pager |-> a.pager, node |-> NoNode]
        ELSE IF c.res # "Ok" THEN [res |-> c.res, pager |-> a.pager, node |-> NoNode]
        ELSE IF w.res # "Ok" THEN [res |-> w.res, pager |-> w.pager, node |-> NoNode]
        ELSE [res |-> "Ok", pager |-> w.pager, node |-> c.node]

get_node_by_page(p, n_page) ==
    LET r == read_page(p, n_page)
    IN  IF r.res # "Ok" THEN [res |-> r.res, node |-> NoNode]
        ELSE load_from_page(r.page)

\* a write_node that writes the page without serializing the fields into it
write_node_no_sync(p, node) ==
    LET w == write_page(p, node.page)
    IN  [res |-> w.res, pager |-> w.pager, node |-> node]

\* the node's page gets the serialized fields in place of its data from
\* offset on, and is written; the node keeps that page
write_node(p, node) ==
    LET n == [node EXCEPT !.page = set_data(node.page, FromSeq(NodeFields(node)))]
        w == write_page(p, n.page)
    IN  [res |-> w.res, pager |-> w.pager, node |-> n]

BTree_open(f) ==
    LET pager == Pager_open(f)
    IN  IF is_empty(pager)
        THEN LET l == initialize_empty_table_leaf(initialize_header(pager))
             IN  [res |-> l.res, pager |-> l.pager]
        ELSE [res |-> validate_header(pager), pager |-> pager]

\* ====================================================== state machine
\* the places the caller keeps a node (or a page) in
Slots == {"a"}

\* values a caller stores in a u16 field of a node
U16Samples == {1, 513}

\* positions in data() past the fixed node fields, and the byte stored there
CellIndexes == {9, 200}
CellByte == 171

ScalarFields == {"free_offset", "n_cells", "cells_offset", "right_page"}

\* bytes a caller stores in the first byte of a page's data: two node
\* types, and two bytes that are no node type
ByteSamples == {13, 5, 7, 0}

\* The files the path may name before the program runs: none (the empty
\* buffer), files that do not start with the magic bytes (zeros, the magic
\* bytes cut short, the magic bytes with one byte changed) of several
\* lengths, and a file cut short right after valid magic bytes.
DefaultHeader == to_bytes(BTreeHeader_default)

GarbageLens == {1, 14, 15, 99, 100, 101, PAGE_SIZE, 2 * PAGE_SIZE}

BadMagic ==
    {Zeros(n) : n \in GarbageLens}
    \cup {Slice(DefaultHeader, 0, n) : n \in {1, 14}}
    \cup {[len |-> n, nz |-> SetByte(DefaultHeader, k, 120).nz] : n \in GarbageLens \ {1, 14},
                                                                  k \in {0, 14}}

ShortValid == {Slice(DefaultHeader, 0, n) : n \in {15}}

\* BTreeHeader values: the magic bytes, all zeros, the magic bytes with the
\* last one changed; u16 and u32 values with low, middle and high bytes set
HeaderSamples ==
    [magic_bytes         : {MAGIC_BYTES, [i \in 1..MAGIC_BYTES_SIZE |-> 0],
                            [MAGIC_BYTES EXCEPT ![MAGIC_BYTES_SIZE] = 120]},
     page_size           : {0, PAGE_SIZE % 65536, 65535},
     file_change_counter : {0, 16909060},
     schema_version      : {0, 1},
     page_cache_size     : {PAGE_CACHE_SIZE_INITIAL, 2147483647},
     user_cookie         : {0, 2130771712}]

NoCodec == [stage |-> "none", h |-> BTreeHeader_default, bytes |-> Zeros(0),
            back |-> BTreeHeader_default]

Pager == [file |-> file, total_pages |-> total_pages]

Call(op, n, slot, res) == [op |-> op, n |-> n, slot |-> slot, res |-> res]

InitWith(files) ==
    /\ \E f \in files :
          /\ file = f
          /\ exists \in IF f.len = 0 THEN BOOLEAN ELSE {TRUE}
    /\ handle = "none"
    /\ total_pages = 0
    /\ nodes = [s \in Slots |-> NoNode]
    /\ pages = [s \in Slots |-> NoPage]
    /\ codec = NoCodec
    /\ last = Call("start", 0, "a", "Ok")
    /\ initialized = FALSE
    /\ used = {}
    /\ nalloc = 0
    /\ nops = 0

Init == InitWith({Zeros(0)} \cup BadMagic \cup ShortValid)

\* one more call of the run; the calls on the file leave the header values
\* of the codec alone
Tick == nops < MaxOps /\ nops' = nops + 1 /\ UNCHANGED codec

\* A panic ends the process: the handle and every held value are gone.
Abort(op, n, slot) ==
    /\ handle' = "none"
    /\ total_pages' = 0
    /\ nodes' = [s \in Slots |-> NoNode]
    /\ pages' = [s \in Slots |-> NoPage]
    /\ nalloc' = 0
    /\ last' = Call(op, n, slot, "panic")

\* ---- the B-Tree layer: BTree::open, get_node_by_page, new_node, write_node
Open ==
    /\ Tick
    /\ handle = "none"
    /\ LET o == BTree_open(file)
       IN  /\ exists' = TRUE
           /\ file' = o.pager.file
           /\ handle' = IF o.res = "Ok" THEN "btree" ELSE "none"
           /\ total_pages' = IF o.res = "Ok" THEN o.pager.total_pages ELSE 0
           /\ nalloc' = IF o.res = "Ok" THEN o.pager.total_pages ELSE 0
           /\ initialized' = (initialized \/ is_empty(Pager_open(file)))
           /\ used' = IF is_empty(Pager_open(file)) THEN used \cup {1} ELSE used
           /\ last' = Call("open", 0, "a", o.res)
    /\ UNCHANGED <<nodes, pages>>

\* the BTree (or the Pager) is dropped, which closes the file
Close ==
    /\ Tick
    /\ handle # "none"
    /\ handle' = "none"
    /\ total_pages' = 0
    /\ nalloc' = 0
    /\ last' = Call("close", 0, "a", "Ok")
    /\ UNCHANGED <<exists, file, nodes, pages, initialized, used>>

GetNodeByPage(n, s) ==
    /\ Tick
    /\ handle = "btree"
    /\ LET g == get_node_by_page(Pager, n)
       IN  IF g.res = "panic"
           THEN Abort("get_node_by_page", n, s)
           ELSE /\ last' = Call("get_node_by_page", n, s, g.res)
                /\ nodes' = IF g.res = "Ok" THEN [nodes EXCEPT ![s] = g.node] ELSE nodes
                /\ UNCHANGED <<handle, total_pages, pages, nalloc>>
    /\ UNCHANGED <<exists, file, initialized, used>>

NewNode(typ, s) ==
    /\ Tick
    /\ handle = "btree"
    /\ total_pages < MaxPages
    /\ LET r == new_node(Pager, typ)
       IN  /\ file' = r.pager.file
           /\ used' = IF r.res = "Ok" THEN used \cup {r.node.page.n_page} ELSE used
           /\ IF r.res = "panic"
              THEN Abort("new_node", 0, s)
              ELSE /\ last' = Call("new_node", r.pager.total_pages, s, r.res)
                   /\ total_pages' = r.pager.total_pages
                   /\ nalloc' = nalloc + 1
                   /\ nodes' = IF r.res = "Ok" THEN [nodes EXCEPT ![s] = r.node] ELSE nodes
                   /\ UNCHANGED <<handle, pages>>
    /\ UNCHANGED <<exists, initialized>>

\* the caller assigns a field of a node it holds
SetField(s, fld, v) ==
    /\ Tick
    /\ nodes[s] # NoNode
    /\ nodes[s][fld] # v
    /\ nodes' = [nodes EXCEPT ![s][fld] = v]
    /\ last' = Call("set_field", 0, s, "Ok")
    /\ UNCHANGED <<exists, file, handle, total_pages, pages, initialized, used, nalloc>>

\* an edit of a node's page that is shared with the file: the byte lands in
\* the file as well
EditCell_shared(s, i, b) ==
    /\ Tick
    /\ nodes[s] # NoNode
    /\ i < data(nodes[s].page).len
    /\ ByteAt(data(nodes[s].page), i) # b
    /\ nodes' = [nodes EXCEPT ![s].page.data =
                    SetByte(nodes[s].page.data, nodes[s].page.offset + i, b)]
    /\ file' = SetByte(file, PageSeek(nodes[s].page.n_page) + nodes[s].page.offset + i, b)
    /\ last' = Call("edit_cell", nodes[s].page.n_page, s, "Ok")
    /\ UNCHANGED <<exists, handle, total_pages, pages, initialized, used, nalloc>>

\* node.page.data_as_mut()[i] = b: the caller changes a byte of the cell
\* offset array or of the cell area directly on the node's page; an index
\* past the end of the slice panics
EditCell(s, i, b) ==
    /\ Tick
    /\ nodes[s] # NoNode
    /\ ByteAt(data(nodes[s].page), i) # b
    /\ IF i >= data(nodes[s].page).len
       THEN Abort("edit_cell", nodes[s].page.n_page, s)
       ELSE /\ nodes' = [nodes EXCEPT ![s].page.data =
                            SetByte(nodes[s].page.data, nodes[s].page.offset + i, b)]
            /\ last' = Call("edit_cell", nodes[s].page.n_page, s, "Ok")
            /\ UNCHANGED <<handle, total_pages, pages, nalloc>>
    /\ UNCHANGED <<exists, file, initialized, used>>

WriteNode(s) ==
    /\ Tick
    /\ handle = "btree"
    /\ nodes[s] # NoNode
    /\ LET w == write_node(Pager, nodes[s])
       IN  /\ file' = w.pager.file
           /\ nodes' = [nodes EXCEPT ![s] = w.node]
           /\ last' = Call("write_node", w.node.page.n_page, s, w.res)
    /\ UNCHANGED <<exists, handle, total_pages, pages, initialized, used, nalloc>>

Next ==
    \/ Open
    \/ Close
    \/ \E n \in 0..(MaxPages + 1), s \in Slots : GetNodeByPage(n, s)
    \/ \E typ \in NodeTypes, s \in Slots : NewNode(typ, s)
    \/ \E s \in Slots, fld \in ScalarFields, v \in U16Samples : SetField(s, fld, v)
    \/ \E s \in Slots, typ \in NodeTypes : SetField(s, "typ", typ)
    \/ \E s \in Slots, i \in CellIndexes : EditCell(s, i, CellByte)
    \/ \E s \in Slots : WriteNode(s)

Spec == Init /\ [][Next]_vars

\* ---- the header codec: BTreeHeader::to_bytes and BTreeHeader::from_bytes
\* ---- on header values, next to the open that writes the default header
ToBytes(h) ==
    /\ codec' = [stage |-> "encoded", h |-> h, bytes |-> to_bytes(h), back |-> NoCodec.back]
    /\ UNCHANGED <<exists, file, handle, total_pages, nodes, pages, last, initialized, used,
                   nalloc, nops>>

FromBytes ==
    /\ codec.stage = "encoded"
    /\ codec' = [codec EXCEPT !.stage = "decoded", !.back = from_bytes(codec.bytes)]
    /\ UNCHANGED <<exists, file, handle, total_pages, nodes, pages, last, initialized, used,
                   nalloc, nops>>

HeaderNext ==
    \/ Open
    \/ Close
    \/ \E h \in HeaderSamples : ToBytes(h)
    \/ FromBytes

HeaderInit == InitWith({Zeros(0)})

HeaderSpec == HeaderInit /\ [][HeaderNext]_vars

\* ---- the Pager used directly: Pager::open, allocate_page, read_page,
\* ---- write_page, MemPage::new, MemPage::data_as_mut, BTreeNode::load_from_page
PagerOpen ==
    /\ Tick
    /\ handle = "none"
    /\ exists' = TRUE
    /\ handle' = "pager"
    /\ total_pages' = Pager_open(file).total_pages
    /\ nalloc' = 0
    /\ last' = Call("pager_open", 0, "a", "Ok")
    /\ UNCHANGED <<file, nodes, pages, initialized, used>>

AllocatePage ==
    /\ Tick
    /\ handle = "pager"
    /\ total_pages < MaxPages
    /\ LET a == allocate_page(Pager)
       IN  /\ total_pages' = a.pager.total_pages
           /\ file' = a.pager.file
           /\ last' = Call("allocate_page", a.ret, "a", "Ok")
    /\ nalloc' = nalloc + 1
    /\ UNCHANGED <<exists, handle, nodes, pages, initialized, used>>

ReadPage(n, s) ==
    /\ Tick
    /\ handle = "pager"
    /\ LET r == read_page(Pager, n)
       IN  /\ pages' = IF r.res = "Ok" THEN [pages EXCEPT ![s] = r.page] ELSE pages
           /\ last' = Call("read_page", n, s, r.res)
    /\ UNCHANGED <<exists, file, handle, total_pages, nodes, initialized, used, nalloc>>

\* MemPage::new(n, [0; PAGE_SIZE], 0): a page the caller makes itself
MakePage(n, s) ==
    /\ Tick
    /\ pages' = [pages EXCEPT ![s] = MemPage_new(n, Zeros(PAGE_SIZE), 0)]
    /\ last' = Call("mempage_new", n, s, "Ok")
    /\ UNCHANGED <<exists, file, handle, total_pages, nodes, initialized, used, nalloc>>

\* page.data_as_mut()[0] = b
EditPage(s, b) ==
    /\ Tick
    /\ pages[s] # NoPage
    /\ ByteAt(data(pages[s]), 0) # b
    /\ pages' = [pages EXCEPT ![s].data = SetByte(pages[s].data, pages[s].offset, b)]
    /\ last' = Call("data_as_mut", 0, s, "Ok")
    /\ UNCHANGED <<exists, file, handle, total_pages, nodes, initialized, used, nalloc>>

WritePage(s) ==
    /\ Tick
    /\ handle = "pager"
    /\ pages[s] # NoPage
    /\ LET w == write_page(Pager, pages[s])
       IN  /\ file' = w.pager.file
           /\ total_pages' = w.pager.total_pages
           /\ last' = Call("write_page", pages[s].n_page, s, w.res)
    /\ UNCHANGED <<exists, handle, nodes, pages, initialized, used, nalloc>>

\* BTreeNode::load_from_page(page): the page moves into the node
LoadFromPage(s) ==
    /\ Tick
    /\ pages[s] # NoPage
    /\ LET l == load_from_page(pages[s])
       IN  IF l.res = "panic"
           THEN Abort("load_from_page", pages[s].n_page, s)
           ELSE /\ nodes' = [nodes EXCEPT ![s] = l.node]
                /\ pages' = [pages EXCEPT ![s] = NoPage]
                /\ last' = Call("load_from_page", pages[s].n_page, s, l.res)
                /\ UNCHANGED <<handle, total_pages, nalloc>>
    /\ UNCHANGED <<exists, file, initialized, used>>

PagerNext ==
    \/ PagerOpen
    \/ Close
    \/ AllocatePage
    \/ \E n \in 0..(MaxPages + 1), s \in Slots : ReadPage(n, s)
    \/ \E n \in 0..(MaxPages + 1), s \in Slots : MakePage(n, s)
    \/ \E s \in Slots, b \in ByteSamples : EditPage(s, b)
    \/ \E s \in Slots : WritePage(s)
    \/ \E s \in Slots : LoadFromPage(s)

PagerInit == InitWith({Zeros(0), Zeros(HEADER_SIZE)} \cup ShortValid)

PagerSpec == PagerInit /\ [][PagerNext]_vars

\* ---- a Pager with many pages: allocate_page has been called PagesPerU32
\* ---- times, so the next page numbers are past the ones whose byte offset
\* ---- fits in a u32
FarPages == {1, 2, PagesPerU32 + 1, PagesPerU32 + 2}

\* (n_page - 1) * PAGE_SIZE does not fit in a u32
Overflows(n_page) == n_page - 1 >= PagesPerU32

FarInit ==
    /\ exists = TRUE
    /\ file = Zeros(0)
    /\ handle = "pager"
    /\ total_pages = PagesPerU32
    /\ nodes = [s \in Slots |-> NoNode]
    /\ pages = [s \in Slots |-> NoPage]
    /\ codec = NoCodec
    /\ last = Call("pager_open", 0, "a", "Ok")
    /\ initialized = FALSE
    /\ used = {}
    /\ nalloc = PagesPerU32
    /\ nops = 0

AllocateFarPage ==
    /\ Tick
    /\ handle = "pager"
    /\ total_pages < PagesPerU32 + 2
    /\ LET a == allocate_page(Pager)
       IN  /\ total_pages' = a.pager.total_pages
           /\ file' = a.pager.file
           /\ last' = Call("allocate_page", a.ret, "a", "Ok")
    /\ nalloc' = nalloc + 1
    /\ UNCHANGED <<exists, handle, nodes, pages, initialized, used>>

\* read_page in a build with overflow checks: the multiplication panics
ReadPagePanics(n, s) ==
    /\ Tick
    /\ handle = "pager"
    /\ n >= 1 /\ n <= total_pages
    /\ Overflows(n)
    /\ Abort("read_page", n, s)
    /\ UNCHANGED <<exists, file, initialized, used>>

\* write_page in a build with overflow checks: the multiplication panics
WritePagePanics(s) ==
    /\ Tick
    /\ handle = "pager"
    /\ pages[s] # NoPage
    /\ pages[s].n_page >= 1 /\ pages[s].n_page <= total_pages
    /\ Overflows(pages[s].n_page)
    /\ Abort("write_page", pages[s].n_page, s)
    /\ UNCHANGED <<exists, file, initialized, used>>

FarNext ==
    \/ AllocateFarPage
    \/ \E n \in FarPages, s \in Slots : ReadPage(n, s)
    \/ \E n \in FarPages, s \in Slots : ReadPagePanics(n, s)
    \/ \E n \in FarPages, s \in Slots : MakePage(n, s)
    \/ \E s \in Slots, b \in ByteSamples : EditPage(s, b)
    \/ \E s \in Slots : WritePage(s)
    \/ \E s \in Slots : WritePagePanics(s)

FarSpec == FarInit /\ [][FarNext]_vars

\* ============================================================= claims
\* the scalar fields of two nodes agree
SameScalars(a, b) ==
    /\ a.typ = b.typ
    /\ a.free_offset = b.free_offset
    /\ a.n_cells = b.n_cells
    /\ a.cells_offset = b.cells_offset
    /\ a.right_page = b.right_page

\* the file does not start with the magic bytes
NotMagic(f) == f.len < MAGIC_BYTES_SIZE \/ BytesOf(f, 0, MAGIC_BYTES_SIZE) # MAGIC_BYTES

\* C1: once BTree.open has initialized the file, whatever get_node_by_page,
\* new_node, field assignment and write_node calls follow (write_node of the
\* node of page 1 among them), the file has its HEADER_SIZE header bytes and
\* reading the header gives the bytes written at initialization.
C1_HeaderIsolation ==
    initialized =>
        /\ file.len >= HEADER_SIZE
        /\ Pager_read_header(Pager) = to_bytes(BTreeHeader_default)

\* a changed node of page 1 was written to an initialized file
C1_Witness ==
    /\ initialized
    /\ last.op = "write_node" /\ last.res = "Ok" /\ last.n = 1
    /\ nodes[last.slot].free_offset = 513

\* C2: after write_node returns Ok for a node, get_node_by_page of the
\* node's page number succeeds and returns a node with the typ, free_offset,
\* n_cells, cells_offset and right_page that were written.
C2_WriteReadRoundTrip ==
    (last.op = "write_node" /\ last.res = "Ok") =>
        LET g == get_node_by_page(Pager, nodes[last.slot].page.n_page)
        IN  g.res = "Ok" /\ SameScalars(g.node, nodes[last.slot])

\* a node of page 2 with a changed field and a changed type was written
C2_Witness ==
    /\ last.op = "write_node" /\ last.res = "Ok" /\ last.n = 2
    /\ nodes[last.slot].right_page = 513
    /\ nodes[last.slot].page.data.len < PAGE_SIZE

\* C3: the page number new_node returns was never used before for the file,
\* neither by an earlier new_node nor by the leaf of page 1 made at
\* initialization.
C3_NewNodeFreshPage ==
    [][(last'.op = "new_node" /\ last'.res = "Ok") => last'.n \notin used]_vars

\* C4: the k-th allocate_page call on a Pager returns k, and allocate_page
\* leaves the file's bytes as they are.
C4_AllocateMonotone ==
    [][(last'.op = "allocate_page") => (last'.n = nalloc' /\ file' = file)]_vars

\* the second page was allocated while no page was ever written
C4_Witness == last.op = "allocate_page" /\ last.n = 2 /\ file.len = 0

\* C5: read_page(n) and write_page of a page numbered n fail with EPageNo
\* when n is 0 or greater than total_pages; the failed call gives no page
\* and leaves the file and the page counter as they are.
C5_BoundsChecked ==
    [][(/\ last'.op \in {"read_page", "write_page"}
        /\ (last'.n = 0 \/ last'.n > total_pages))
       => (/\ last'.res = "EPageNo"
           /\ file' = file
           /\ total_pages' = total_pages
           /\ pages' = pages)]_vars

\* a page past the allocated ones was asked for, with pages allocated
C5_Witness ==
    /\ last.op \in {"read_page", "write_page"}
    /\ total_pages >= 1
    /\ last.n > total_pages
    /\ last.res = "EPageNo"

\* C6: load_from_page and get_node_by_page never panic: a page whose type
\* byte is no node type gives an error value.
C6_NoPanicOnBadType ==
    last.op \in {"load_from_page", "get_node_by_page"} => last.res # "panic"

\* C7: BTree.open of a non-empty file that does not start with the magic
\* bytes fails with Ecorruptheader, whatever the file's length, and leaves
\* the file's bytes as they are.
C7_CorruptHeaderDetected ==
    [][(last'.op = "open" /\ file.len > 0 /\ NotMagic(file))
       => (last'.res = "Ecorruptheader" /\ file' = file)]_vars

\* the open of a file of HEADER_SIZE zero bytes failed
C7_Witness ==
    /\ last.op = "open" /\ last.res = "Ecorruptheader"
    /\ file = Zeros(HEADER_SIZE)

\* C8: BTree.open of a non-empty file shorter than HEADER_SIZE fails with
\* NoHeader (open leaves a non-empty file as it is, so the file's length
\* after the call is its length before).
C8_MissingHeader ==
    (last.op = "open" /\ file.len > 0 /\ file.len < HEADER_SIZE) => last.res = "NoHeader"

\* C9: BTree.open of an empty file succeeds and leaves a file that starts
\* with the magic bytes and whose page 1 decodes as a LeafTable node without
\* cells; BTree.open of a file that an earlier open initialized succeeds and
\* leaves every byte of the file as it is.
C9_OpenIdempotent ==
    [][(last'.op = "open") =>
          IF file.len = 0
          THEN /\ last'.res = "Ok"
               /\ ~NotMagic(file')
               /\ LET g == get_node_by_page([file |-> file', total_pages |-> total_pages'], 1)
                  IN  g.res = "Ok" /\ g.node.typ = "LeafTable" /\ g.node.n_cells = 0
          ELSE initialized => (last'.res = "Ok" /\ file' = file)]_vars

\* an initialized file that got a second page was opened again
C9_Witness ==
    /\ last.op = "open" /\ last.res = "Ok" /\ nops > 1
    /\ initialized
    /\ file.len = 2 * PAGE_SIZE

\* C10: the node new_node returns has n_cells = 0, cells_offset =
\* PAGE_SIZE, free_offset = 0 and right_page = 0, and get_node_by_page of
\* its page number right afterwards returns a node with the same page
\* number, scalar fields and celloffset_array.
C10_FreshNodeRoundTrip ==
    (last.op = "new_node" /\ last.res = "Ok") =>
        LET n == nodes[last.slot]
            g == get_node_by_page(Pager, n.page.n_page)
        IN  /\ n.n_cells = 0 /\ n.cells_offset = PAGE_SIZE
            /\ n.free_offset = 0 /\ n.right_page = 0
            /\ g.res = "Ok"
            /\ g.node.page.n_page = n.page.n_page
            /\ SameScalars(g.node, n)
            /\ g.node.celloffset_array = n.celloffset_array

\* an InternalTable node was made on page 2
C10_Witness ==
    /\ last.op = "new_node" /\ last.res = "Ok" /\ last.n = 2
    /\ nodes[last.slot].typ = "InternalTable"

\* the file range of page m: bytes (m-1)*PAGE_SIZE .. m*PAGE_SIZE
PageRange(f, m) == Slice(f, (m - 1) * PAGE_SIZE, m * PAGE_SIZE)

\* C11: write_node or new_node on page N leaves the file range of every
\* other page, and the HEADER_SIZE header bytes, as they were.
C11_OtherPagesUntouched ==
    [][(last'.op \in {"write_node", "new_node"}) =>
          /\ \A m \in (1..(MaxPages + 1)) \ {last'.n} : PageRange(file', m) = PageRange(file, m)
          /\ Slice(file', 0, HEADER_SIZE) = Slice(file, 0, HEADER_SIZE)]_vars

\* a changed node of page 2 was written while page 1 holds its leaf
C11_Witness ==
    /\ last.op = "write_node" /\ last.res = "Ok" /\ last.n = 2
    /\ nodes[last.slot].free_offset = 513
    /\ ByteAt(file, HEADER_SIZE + 1) = value("LeafTable")

\* what get_node_by_page of page n gives for the file f
ReadOf(f, n) == get_node_by_page([file |-> f, total_pages |-> n], n)

\* C12: assigning a field or a page byte of a held node, reading a node and
\* dropping the handle leave the file as it was; and what get_node_by_page
\* gives for a page only changes by a write_node or new_node of that page
\* (or by the open that initializes the file).
C12_DetachedCopies ==
    [][/\ (last'.op \in {"set_field", "edit_cell", "get_node_by_page", "close"}) => file' = file
       /\ \A n \in 1..(MaxPages + 1) :
             (last'.op # "open" /\ ~(last'.op \in {"write_node", "new_node"} /\ last'.n = n))
                 => ReadOf(file', n) = ReadOf(file, n)]_vars

\* a held node of page 2 has a changed cell byte that the file does not have
C12_Witness ==
    /\ last.op = "edit_cell" /\ last.res = "Ok" /\ last.n = 2
    /\ ByteAt(data(nodes[last.slot].page), 200) = CellByte
    /\ ByteAt(ReadOf(file, 2).node.page.data, 200) = 0
    /\ ReadOf(file, 2).res = "Ok"

\* C13: when write_node returns Ok, the file holds, at the node's page, the
\* bytes of the cell offset array and of the cell area that the node's page
\* had in memory before the call (changed through data_as_mut or not).
C13_CellBytesPersisted ==
    [][(last'.op = "write_node" /\ last'.res = "Ok") =>
          LET page == nodes[last'.slot].page
          IN  \A i \in CellIndexes :
                  i < data(page).len =>
                      ByteAt(file', PageSeek(page.n_page) + page.offset + i) = ByteAt(data(page), i)]_vars

\* C14: after BTree.open of a fresh path the file has, from byte HEADER_SIZE
\* on, the fields of the empty LeafTable node of page 1: the type byte, then
\* free_offset, n_cells, cells_offset and right_page as little-endian u16.
C14_PageOneNodeAtHeaderSize ==
    (initialized /\ last.op = "open" /\ last.res = "Ok" /\ nops = 1) =>
        BytesOf(file, HEADER_SIZE, 9) = NodeFields(BTreeNode_new(NoPage, "LeafTable"))

\* C15: the node new_node returns has celloffset_array equal to the size of
\* the fixed node fields (type and four u16), not 0.
C15_CellOffsetArrayAfterHeader ==
    (last.op = "new_node" /\ last.res = "Ok") =>
        nodes[last.slot].celloffset_array = Len(NodeFields(nodes[last.slot]))

\* C16: from_bytes(to_bytes(h)) = h, field for field, for every header value
\* h, the ones whose magic bytes are wrong among them.
C16_HeaderRoundTrip ==
    codec.stage = "decoded" =>
        /\ codec.back.magic_bytes = codec.h.magic_bytes
        /\ codec.back.page_size = codec.h.page_size
        /\ codec.back.file_change_counter = codec.h.file_change_counter
        /\ codec.back.schema_version = codec.h.schema_version
        /\ codec.back.page_cache_size = codec.h.page_cache_size
        /\ codec.back.user_cookie = codec.h.user_cookie

\* a header with wrong magic bytes and every field non-zero went through
\* to_bytes and from_bytes
C16_Witness ==
    /\ codec.stage = "decoded"
    /\ codec.h.magic_bytes # MAGIC_BYTES
    /\ codec.h.page_size = 65535
    /\ codec.h.file_change_counter = 16909060
    /\ codec.h.schema_version = 1
    /\ codec.h.page_cache_size = 2147483647
    /\ codec.h.user_cookie = 2130771712

\* byte k (from 0) of the little-endian form of v
LeByte(v, k) == (v \div (256 ^ k)) % 256

\* C17: to_bytes(h) is 100 bytes: the magic bytes at 0..15, page_size at 15,
\* file_change_counter at 17, schema_version at 21, page_cache_size at 25,
\* user_cookie at 29, all little-endian, zeros from 33 on; and after
\* BTree.open of a fresh path the file's first 100 bytes are these bytes for
\* the default header.
C17_HeaderLayout ==
    /\ codec.stage # "none" =>
          LET b == codec.bytes
              h == codec.h
          IN  /\ b.len = 100
              /\ DOMAIN b.nz \subseteq 0..32
              /\ \A i \in 0..14 : ByteAt(b, i) = h.magic_bytes[i + 1]
              /\ \A k \in 0..1 : ByteAt(b, 15 + k) = LeByte(h.page_size, k)
              /\ \A k \in 0..3 :
                    /\ ByteAt(b, 17 + k) = LeByte(h.file_change_counter, k)
                    /\ ByteAt(b, 21 + k) = LeByte(h.schema_version, k)
                    /\ ByteAt(b, 25 + k) = LeByte(h.page_cache_size, k)
                    /\ ByteAt(b, 29 + k) = LeByte(h.user_cookie, k)
    /\ (initialized /\ last.op = "open" /\ last.res = "Ok") =>
          LET h == BTreeHeader_default
          IN  /\ file.len >= 100
              /\ DOMAIN Slice(file, 0, 100).nz \subseteq 0..32
              /\ \A i \in 0..14 : ByteAt(file, i) = h.magic_bytes[i + 1]
              /\ \A k \in 0..1 : ByteAt(file, 15 + k) = LeByte(h.page_size, k)
              /\ \A k \in 0..3 :
                    /\ ByteAt(file, 17 + k) = LeByte(h.file_change_counter, k)
                    /\ ByteAt(file, 21 + k) = LeByte(h.schema_version, k)
                    /\ ByteAt(file, 25 + k) = LeByte(h.page_cache_size, k)
                    /\ ByteAt(file, 29 + k) = LeByte(h.user_cookie, k)

\* a header with distinct counters was serialized, on a file that a first
\* open has just initialized
C17_Witness ==
    /\ codec.stage = "encoded"
    /\ codec.h.file_change_counter = 16909060 /\ codec.h.schema_version = 1
    /\ initialized /\ last.op = "open" /\ last.res = "Ok" /\ nops = 1

\* the first call of the run was a BTree.open that found no file or an empty
\* one, and it returned Ok
FreshOpen == initialized /\ last.op = "open" /\ last.res = "Ok" /\ nops = 1

\* C18 as stated: after BTree.open of a fresh path the file is at least
\* HEADER_SIZE + PAGE_SIZE bytes long.
C18_AtLeastHeaderPlusPage == FreshOpen => file.len >= HEADER_SIZE + PAGE_SIZE

\* C18: after BTree.open of a fresh path the file is PAGE_SIZE bytes long:
\* page 1, whose first HEADER_SIZE bytes are the header.
C18_FreshFileIsOnePage == FreshOpen => file.len = PAGE_SIZE

\* a fresh open gave a file that starts with the magic bytes and has the
\* leaf's cells_offset in page 1
C18_Witness ==
    /\ FreshOpen
    /\ BytesOf(file, 0, MAGIC_BYTES_SIZE) = MAGIC_BYTES
    /\ ReadOf(file, 1).res = "Ok" /\ ReadOf(file, 1).node.typ = "LeafTable"
    /\ file.len > HEADER_SIZE

\* C19: the page of every node the caller holds has a buffer of exactly
\* PAGE_SIZE bytes, whatever get_node_by_page, new_node, field and cell
\* edits and write_node calls were made.
C19_BufferIsPageSize ==
    \A s \in Slots : nodes[s] # NoNode => nodes[s].page.data.len = PAGE_SIZE

\* C20: when a write of a page has returned Ok (the write_page that
\* write_node and new_node end with), the PAGE_SIZE bytes of the page's range
\* in the file are the page's buffer, and read_page of that page number
\* returns those bytes.
C20_FullPageWritten ==
    (last.op \in {"write_node", "new_node"} /\ last.res = "Ok" /\ handle = "btree") =>
        LET page == nodes[last.slot].page
        IN  /\ PageRange(file, page.n_page) = page.data
            /\ read_page(Pager, page.n_page).page.data = page.data

\* the page numbers whose range starts inside the file f
PagesPresent(f) == {n \in 1..(MaxPages + 1) : (n - 1) * PAGE_SIZE < f.len}

\* C21: when BTree.open returns Ok on a file that an earlier BTree.open
\* created, the Pager's page count covers every page present in the file, and
\* get_node_by_page succeeds for each of them and returns the node the file
\* holds there.
C21_PagesPersistAcrossReopen ==
    (initialized /\ last.op = "open" /\ last.res = "Ok") =>
        \A n \in PagesPresent(file) :
            /\ n <= total_pages
            /\ get_node_by_page(Pager, n).res = ReadOf(file, n).res
            /\ SameScalars(get_node_by_page(Pager, n).node, ReadOf(file, n).node)

\* C22: a read_page or write_page of a valid page number n does not panic,
\* uses the byte offset (n-1) * PAGE_SIZE, and a write leaves the file range
\* of every other page as it was, for the page numbers allocate_page returns
\* after PagesPerU32 calls as for the first ones.
C22_OffsetDoesNotOverflow ==
    [][(last'.op \in {"read_page", "write_page"} /\ last'.n >= 1 /\ last'.n <= total_pages) =>
          /\ last'.res = "Ok"
          /\ PageSeek(last'.n) \div PAGE_SIZE = last'.n - 1
          /\ \A m \in {1, 2} \ {last'.n} : PageRange(file', m) = PageRange(file, m)]_vars

====
